---- MODULE Spec2Model ----
(***************************************************************************)
(* Model of the Shenandoah root processor and root evacuator               *)
(* (shenandoahRootProcessor.cpp): one root-scan session, the workers that  *)
(* call its entry points, the SubTasksDone claim set, the synchronizer     *)
(* iterator, the pending-list-lock pre-evacuation and the phase timings.   *)
(***************************************************************************)
EXTENDS Integers, Sequences, FiniteSets, TLC

\* ---------------------------------------------------------------- bounds
NWorkers == 2
NChunks == 3
NEntries == 2
NClds == 2
NThreads == 2

Workers == 1..NWorkers
Chunks == 1..NChunks
Entries == 1..NEntries
Clds == 1..NClds
JavaThreads == 1..NThreads

\* ------------------------------------------------------------- constants
\* The session variants: which entry point the workers of the session call;
\* in a "strong_slow" session process_all_roots_slow is called on a processor
\* whose workers also run process_strong_roots.
Kinds == {"strong", "all", "evac", "slow", "strong_slow"}

\* The phase identifier handed to the constructors: the code stores it and
\* hands it on to the phase timings without looking at it, so one value
\* stands for all of them.
Phases == {"init_evac"}

\* Task slots of the SubTasksDone sets (SHENANDOAH_RP_PS_* / SHENANDOAH_EVAC_*).
StrongTasks ==
  {"Universe_oops_do", "JNIHandles_oops_do", "FlatProfiler_oops_do",
   "Management_oops_do", "jvmti_oops_do", "SystemDictionary_oops_do"}

Tasks == StrongTasks \cup {"JNIHandles_weak_oops_do"}

\* The singleton strong sources, and the weak sources.
SingletonStrong ==
  {"Universe", "JNIHandles", "FlatProfiler", "Management", "Jvmti",
   "SystemDictionary"}

WeakSources == {"JNIWeak", "StringDedup", "StringTable"}

Sources ==
  SingletonStrong \cup WeakSources
    \cup {"CodeCache", "CLDG", "Threads", "ObjectSynchronizer"}

VARIABLES
  kind,               \* session variant
  phase,              \* _phase
  live,               \* the session object exists (constructed, not destroyed)
  dedup_enabled,      \* ShenandoahStringDedup::is_enabled()
  pc,                 \* per worker: position in its call
  weak_roots,         \* per worker: process_vm_roots' weak_roots is non-NULL
  weak_clds,          \* per worker: process_java_roots' weak_clds is non-NULL
  blobs,              \* the blobs closure handed to process_evacuate_roots is non-NULL
  tasks,              \* SubTasksDone::_tasks: claim bit of every task slot
  threads_completed,  \* SubTasksDone::_threads_completed
  cur,                \* ShenandoahSynchronizerIterator: chunks handed out
  pll_slot,           \* content of the pending_list_lock slot: "NULL" / "PLL"
  pll_in_cset,        \* heap->in_collection_set(pll)
  fwd,                \* forwarding of the PLL object: 0 = itself, w = copy of w
  copies,             \* to-space copies of the PLL object that exist
  fwd_seen,           \* per worker: forwardee it has seen (0 = none)
  oom,                \* per worker: its evacuation of the PLL failed to allocate
  evac_log,           \* "pll" / "root" in the order of their first evacuation
  timing,             \* records received by the phase timings
  visits,             \* per source: how often its traversal was invoked
  chunk_visits,       \* per monitor chunk: how often it was walked
  trace,              \* per worker: the calls it made, in order
  worker_times,       \* per source: records of ShenandoahWorkerTimingsTracker
  dead,               \* weak entries whose referent is_alive reports dead
  st_idx,             \* StringTable: chunks of buckets handed out
  st_linked,          \* StringTable: entries linked in the table
  st_processed,       \* StringTable: per entry, how often it was processed
  processed,          \* per worker: the local 'processed' of process_vm_roots
  removed,            \* per worker: the local 'removed' of process_vm_roots
  jni_cleared,        \* weak JNI handles that were cleared
  jni_visits,         \* per weak JNI handle: how often it went to the visitor
  cld_marks,          \* class-loader nodes whose claim mark is set
  cld_visits,         \* per class-loader node: how often it went to a visitor
  thread_claimed,     \* threads claimed in the parallel thread traversal
  thread_visits       \* per thread: how often its stack was walked

vars == <<kind, phase, live, dedup_enabled, pc, weak_roots, weak_clds, blobs,
          tasks, threads_completed, cur, pll_slot, pll_in_cset, fwd, copies,
          fwd_seen, oom, evac_log, timing, visits, chunk_visits, trace,
          worker_times, dead, st_idx, st_linked, st_processed, processed,
          removed, jni_cleared, jni_visits, cld_marks, cld_visits,
          thread_claimed, thread_visits>>

sessionVars == <<kind, phase, dedup_enabled, pll_slot, pll_in_cset, blobs, dead>>
internVars == <<st_idx, st_linked, st_processed, processed, removed>>
jniWeakVars == <<jni_cleared, jni_visits>>
cldVars == <<cld_marks, cld_visits>>
threadVars == <<thread_claimed, thread_visits>>
pllVars == <<fwd, copies, fwd_seen, oom>>
argVars == <<weak_roots, weak_clds>>

\* ------------------------------------------------------------ events
Ev(e, s, a) == [ev |-> e, src |-> s, arg |-> a]

Log(w, evs) == trace' = [trace EXCEPT ![w] = @ \o evs]

Goto(w, l) == pc' = [pc EXCEPT ![w] = l]

\* The traversal of source s is invoked.
Visit(s) == visits' = [visits EXCEPT ![s] = @ + 1]

\* ShenandoahWorkerTimingsTracker timer(s, worker_id): one record for source s.
Timed(s) == worker_times' = [worker_times EXCEPT ![s] = @ + 1]

\* A call of an unguarded source by worker w, inside its tracker scope.
Call(w, s, a) == Visit(s) /\ Timed(s) /\ Log(w, <<Ev("visit", s, a)>>)

\* The evacuating closure applied to a root source evacuates the objects it
\* reaches: "root" enters evac_log the first time it is applied to a source.
Noted(x) == IF \E i \in DOMAIN evac_log : evac_log[i] = x
              THEN evac_log ELSE Append(evac_log, x)

Evacuates == evac_log' = Noted("root")

\* ----------------------------------------------------------- SubTasksDone
\* is_task_claimed(t): atomically sets the claim bit and answers whether it
\* was set before the call.
is_task_claimed(t) == tasks[t] # 0

claim_task(t) == [tasks EXCEPT ![t] = 1]

\* ------------------------------------------------ ShenandoahSynchronizerIterator
\* parallel_oops_do: atomically takes the next chunk, answers whether it got one.
om_has_next == cur < NChunks

\* ------------------------------------------------------------- weak tables
\* What the closure handed as is_alive answers for the referent of entry e.
IsDead(is_alive, e) == is_alive # "always_true" /\ e \in dead

\* JNIHandles::weak_oops_do(is_alive, f): a weak handle whose referent is
\* reported dead is cleared, every other one goes to f.
weak_oops_do(is_alive) ==
  LET handles == Entries \ jni_cleared
      gone == {e \in handles : IsDead(is_alive, e)}
  IN  /\ jni_cleared' = jni_cleared \cup gone
      /\ jni_visits' = [e \in Entries |->
                          IF e \in handles \ gone THEN jni_visits[e] + 1
                                                  ELSE jni_visits[e]]

\* StringTable::possibly_parallel_unlink_or_oops_do(is_alive, f, &processed,
\* &removed), one claimed chunk of buckets: the entry is counted, and it is
\* unlinked if its referent is dead, handed to f otherwise.
StringTable_unlink_or_oops_do_chunk(w, is_alive) ==
  LET e == st_idx + 1
  IN  /\ st_idx' = e
      /\ st_processed' = [st_processed EXCEPT ![e] = @ + 1]
      /\ processed' = [processed EXCEPT ![w] = @ + 1]
      /\ IF IsDead(is_alive, e)
           THEN /\ st_linked' = st_linked \ {e}
                /\ removed' = [removed EXCEPT ![w] = @ + 1]
           ELSE UNCHANGED <<st_linked, removed>>

\* StringTable::possibly_parallel_oops_do(f): the caller claims chunks until
\* none is left; every entry of a claimed chunk goes to f, none is unlinked.
StringTable_possibly_parallel_oops_do ==
  /\ st_idx' = NEntries
  /\ st_processed' = [e \in Entries |->
                        IF e > st_idx THEN st_processed[e] + 1
                                      ELSE st_processed[e]]
  /\ UNCHANGED <<st_linked, processed, removed>>

\* StringTable::oops_do(f): serial, every entry goes to f.
StringTable_oops_do ==
  /\ st_processed' = [e \in Entries |-> st_processed[e] + 1]
  /\ UNCHANGED <<st_idx, st_linked, processed, removed>>

\* -------------------------------------------------------- class-loader graph
\* ClassLoaderData::keep_alive(): the node is strongly held.
keep_alive(c) == c % 2 = 1

\* ClassLoaderDataGraph::roots_cld_do(strong, weak) with claiming closures:
\* a node goes to the closure of its strength, if that closure is non-NULL
\* and the caller wins the claim mark of the node.
roots_cld_do(weak) ==
  LET won == {c \in Clds : (keep_alive(c) \/ weak) /\ c \notin cld_marks}
  IN  /\ cld_marks' = cld_marks \cup won
      /\ cld_visits' = [c \in Clds |->
                          IF c \in won THEN cld_visits[c] + 1 ELSE cld_visits[c]]

\* ClassLoaderDataGraph::cld_do(cl): serial, every node goes to cl.
cld_do ==
  /\ cld_visits' = [c \in Clds |-> cld_visits[c] + 1]
  /\ UNCHANGED cld_marks

\* ------------------------------------------------------------------ Threads
\* Threads::possibly_parallel_oops_do: the caller walks every thread it
\* claims; a thread is claimed by one caller per session.
Threads_oops_do ==
  /\ thread_visits' = [t \in JavaThreads |-> thread_visits[t] + 1]
  /\ UNCHANGED thread_claimed

Threads_possibly_parallel_oops_do ==
  LET won == JavaThreads \ thread_claimed
  IN  /\ thread_claimed' = thread_claimed \cup won
      /\ thread_visits' = [t \in JavaThreads |->
                             IF t \in won THEN thread_visits[t] + 1
                                          ELSE thread_visits[t]]

\* ------------------------------------------------------------------ Init
\* The state right after the constructor of the processor / evacuator.
Init ==
  /\ kind \in Kinds
  /\ phase \in Phases
  /\ live = TRUE
  /\ dedup_enabled \in BOOLEAN
  /\ pc = [w \in Workers |-> "idle"]
  /\ weak_roots = [w \in Workers |-> FALSE]
  /\ weak_clds = [w \in Workers |-> FALSE]
  /\ blobs \in (IF kind = "evac" THEN BOOLEAN ELSE {FALSE})
  /\ tasks = [t \in Tasks |-> 0]
  /\ threads_completed = 0
  /\ cur = 0
  /\ pll_slot \in (IF kind = "evac" THEN {"NULL", "PLL"} ELSE {"NULL"})
  /\ pll_in_cset \in (IF pll_slot = "PLL" THEN BOOLEAN ELSE {FALSE})
  /\ fwd = 0
  /\ copies = {}
  /\ fwd_seen = [w \in Workers |-> 0]
  /\ oom = [w \in Workers |-> FALSE]
  /\ evac_log = <<>>
  \* record_workers_start(_phase) in the constructor of the evacuator
  /\ timing = IF kind = "evac" THEN <<[rec |-> "start", phase |-> phase]>>
                               ELSE <<>>
  /\ visits = [s \in Sources |-> 0]
  /\ chunk_visits = [c \in Chunks |-> 0]
  /\ trace = [w \in Workers |-> <<>>]
  /\ worker_times = [s \in Sources |-> 0]
  \* process_all_roots hands AlwaysTrueClosure (nothing dead), update_all_roots
  \* the closure of its caller
  /\ dead \in (IF kind = "all" THEN SUBSET Entries ELSE {Entries})
  \* _srs(heap, true): StringTable::clear_parallel_claimed_index(), and the
  \* thread claim parity is changed
  /\ st_idx = 0
  /\ st_linked = Entries
  /\ st_processed = [e \in Entries |-> 0]
  /\ processed = [w \in Workers |-> 0]
  /\ removed = [w \in Workers |-> 0]
  /\ jni_cleared = {}
  /\ jni_visits = [e \in Entries |-> 0]
  \* ParallelCLDRootIterator(): ClassLoaderDataGraph::clear_claimed_marks()
  /\ cld_marks = {}
  /\ cld_visits = [c \in Clds |-> 0]
  /\ thread_claimed = {}
  /\ thread_visits = [t \in JavaThreads |-> 0]

\* ------------------------------------------------- ShenandoahRootProcessor
\* if (!_process_strong_tasks->is_task_claimed(t)) { <source>::oops_do(..); }
ClaimedRootsUnguarded(w, t, s, next) ==
  /\ tasks' = claim_task(t)
  /\ Visit(s) /\ Timed(s)
  /\ Log(w, <<Ev("claim", t, "")>>)
  /\ Goto(w, next)

ClaimedRootsTimedAlways(w, t, s, next) ==
  /\ tasks' = claim_task(t)
  /\ Timed(s)
  /\ IF ~is_task_claimed(t) THEN Visit(s) ELSE UNCHANGED visits
  /\ Log(w, <<Ev("claim", t, "")>>)
  /\ Goto(w, next)

ClaimedRoots(w, t, s, next) ==
  /\ tasks' = claim_task(t)
  /\ IF ~is_task_claimed(t) THEN Visit(s) /\ Timed(s)
                            ELSE UNCHANGED <<visits, worker_times>>
  /\ Log(w, <<Ev("claim", t, "")>>)
  /\ Goto(w, next)

\* { timer; while (_om_iterator.parallel_oops_do(cl)); }   one call of the
\* loop per step; the tracker scope ends with the loop
OmLoopOnce(w, next) ==
  IF om_has_next
    THEN /\ cur' = cur + 1
         /\ chunk_visits' = [chunk_visits EXCEPT ![cur + 1] = @ + 1]
         /\ Timed("ObjectSynchronizer")
         /\ Goto(w, next)
    ELSE /\ Goto(w, next)
         /\ Timed("ObjectSynchronizer")
         /\ UNCHANGED <<cur, chunk_visits>>

OmLoopSpin(w, next) ==
  IF om_has_next
    THEN /\ cur' = cur + 1
         /\ chunk_visits' = [chunk_visits EXCEPT ![cur + 1] = @ + 1]
         /\ UNCHANGED <<pc, worker_times>>
    ELSE UNCHANGED <<pc, cur, chunk_visits, worker_times>>

OmLoop(w, next) ==
  IF om_has_next
    THEN /\ cur' = cur + 1
         /\ chunk_visits' = [chunk_visits EXCEPT ![cur + 1] = @ + 1]
         /\ UNCHANGED <<pc, worker_times>>
    ELSE /\ Goto(w, next)
         /\ Timed("ObjectSynchronizer")
         /\ UNCHANGED <<cur, chunk_visits>>

\* What no step of a worker's call changes.
stepFrame == <<sessionVars, live, argVars, threads_completed, timing>>

\* The state of the root sources with entries of their own.
tableVars == <<internVars, jniWeakVars, cldVars, threadVars>>

\* What no step of the root processor changes.
procFrame == <<stepFrame, pllVars, evac_log>>

\* process_strong_roots: calls process_java_roots(oops, clds, NULL, ..) and
\* process_vm_roots(oops, NULL, NULL, ..)
process_strong_roots(w) ==
  /\ live /\ kind \in {"strong", "strong_slow"} /\ pc[w] = "idle"
  /\ weak_clds' = [weak_clds EXCEPT ![w] = FALSE]
  /\ weak_roots' = [weak_roots EXCEPT ![w] = FALSE]
  /\ Goto(w, "java_cld")
  /\ UNCHANGED <<tableVars, worker_times, sessionVars, live,
                 threads_completed, timing, pllVars,
                 evac_log, tasks, cur, visits, chunk_visits, trace>>

\* process_all_roots: update_all_roots<AlwaysTrueClosure>, the parallel
\* analog with the weak closures supplied
process_all_roots(w) ==
  /\ live /\ kind = "all" /\ pc[w] = "idle"
  /\ weak_clds' = [weak_clds EXCEPT ![w] = TRUE]
  /\ weak_roots' = [weak_roots EXCEPT ![w] = TRUE]
  /\ Goto(w, "java_cld")
  /\ UNCHANGED <<tableVars, worker_times, sessionVars, live,
                 threads_completed, timing, pllVars,
                 evac_log, tasks, cur, visits, chunk_visits, trace>>

\* process_java_roots, first block: _cld_iterator.root_cld_do(strong, weak)
java_roots_cld_reset(w) ==
  /\ pc[w] = "java_cld"
  /\ Call(w, "CLDG", IF weak_clds[w] THEN "strong+weak" ELSE "strong")
  /\ cld_marks' = {c \in Clds : keep_alive(c) \/ weak_clds[w]}
  /\ cld_visits' = [c \in Clds |->
                      IF keep_alive(c) \/ weak_clds[w] THEN cld_visits[c] + 1
                                                       ELSE cld_visits[c]]
  /\ Goto(w, "java_threads")
  /\ UNCHANGED <<internVars, jniWeakVars, threadVars, procFrame, tasks, cur,
                 chunk_visits>>

java_roots_cld(w) ==
  /\ pc[w] = "java_cld"
  /\ Call(w, "CLDG", IF weak_clds[w] THEN "strong+weak" ELSE "strong")
  /\ roots_cld_do(weak_clds[w])
  /\ Goto(w, "java_threads")
  /\ UNCHANGED <<internVars, jniWeakVars, threadVars, procFrame, tasks, cur,
                 chunk_visits>>

\* process_java_roots, second block: Threads::possibly_parallel_oops_do
java_roots_threads_serial(w) ==
  /\ pc[w] = "java_threads"
  /\ Call(w, "Threads", "")
  /\ Threads_oops_do
  /\ Goto(w, "vm_Universe")
  /\ UNCHANGED <<internVars, jniWeakVars, cldVars, procFrame, tasks, cur,
                 chunk_visits>>

java_roots_threads_then_done(w) ==
  /\ pc[w] = "java_threads"
  /\ Call(w, "Threads", "")
  /\ Threads_possibly_parallel_oops_do
  /\ Goto(w, "completed")
  /\ UNCHANGED <<internVars, jniWeakVars, cldVars, procFrame, tasks, cur,
                 chunk_visits>>

java_roots_threads(w) ==
  /\ pc[w] = "java_threads"
  /\ Call(w, "Threads", "")
  /\ Threads_possibly_parallel_oops_do
  /\ Goto(w, "vm_Universe")
  /\ UNCHANGED <<internVars, jniWeakVars, cldVars, procFrame, tasks, cur,
                 chunk_visits>>

vm_roots_Universe(w) ==
  /\ pc[w] = "vm_Universe"
  /\ ClaimedRoots(w, "Universe_oops_do", "Universe", "vm_JNIHandles")
  /\ UNCHANGED <<tableVars, procFrame, cur, chunk_visits>>

vm_roots_JNIHandles(w) ==
  /\ pc[w] = "vm_JNIHandles"
  /\ ClaimedRoots(w, "JNIHandles_oops_do", "JNIHandles", "vm_FlatProfiler")
  /\ UNCHANGED <<tableVars, procFrame, cur, chunk_visits>>

vm_roots_FlatProfiler(w) ==
  /\ pc[w] = "vm_FlatProfiler"
  /\ ClaimedRoots(w, "FlatProfiler_oops_do", "FlatProfiler", "vm_Management")
  /\ UNCHANGED <<tableVars, procFrame, cur, chunk_visits>>

vm_roots_Management(w) ==
  /\ pc[w] = "vm_Management"
  /\ ClaimedRoots(w, "Management_oops_do", "Management", "vm_jvmti")
  /\ UNCHANGED <<tableVars, procFrame, cur, chunk_visits>>

vm_roots_jvmti(w) ==
  /\ pc[w] = "vm_jvmti"
  /\ ClaimedRoots(w, "jvmti_oops_do", "Jvmti", "vm_SystemDictionary")
  /\ UNCHANGED <<tableVars, procFrame, cur, chunk_visits>>

\* SystemDictionary::roots_oops_do(strong_roots, weak_roots)
vm_roots_SystemDictionary(w) ==
  /\ pc[w] = "vm_SystemDictionary"
  /\ ClaimedRoots(w, "SystemDictionary_oops_do", "SystemDictionary", "vm_JNIWeak")
  /\ UNCHANGED <<tableVars, procFrame, cur, chunk_visits>>

\* if (weak_roots != NULL) { if (!is_task_claimed(JNIHandles_weak_oops_do)) .. }
vm_roots_JNIWeak(w) ==
  /\ pc[w] = "vm_JNIWeak"
  /\ IF weak_roots[w]
       THEN /\ ClaimedRoots(w, "JNIHandles_weak_oops_do", "JNIWeak",
                         "vm_StringDedup")
            /\ IF ~is_task_claimed("JNIHandles_weak_oops_do")
                 THEN weak_oops_do("is_alive")
                 ELSE UNCHANGED jniWeakVars
       ELSE /\ Goto(w, "vm_StringDedup")
            /\ UNCHANGED <<tasks, visits, worker_times, trace, jniWeakVars>>
  /\ UNCHANGED <<internVars, cldVars, threadVars, procFrame, cur,
                 chunk_visits>>

\* if (ShenandoahStringDedup::is_enabled() && weak_roots != NULL)
vm_roots_StringDedup_weak_only(w) ==
  /\ pc[w] = "vm_StringDedup"
  /\ IF weak_roots[w]
       THEN Call(w, "StringDedup", "parallel_oops_do")
       ELSE UNCHANGED <<visits, worker_times, trace>>
  /\ Goto(w, "vm_om")
  /\ UNCHANGED <<tableVars, procFrame, tasks, cur, chunk_visits>>

vm_roots_StringDedup(w) ==
  /\ pc[w] = "vm_StringDedup"
  /\ IF dedup_enabled /\ weak_roots[w]
       THEN Call(w, "StringDedup", "parallel_oops_do")
       ELSE UNCHANGED <<visits, worker_times, trace>>
  /\ Goto(w, "vm_om")
  /\ UNCHANGED <<tableVars, procFrame, tasks, cur, chunk_visits>>

\* { while(_om_iterator.parallel_oops_do(strong_roots)); }
vm_roots_om_weak_only(w) ==
  /\ pc[w] = "vm_om"
  /\ IF weak_roots[w]
       THEN OmLoop(w, "vm_StringTable")
       ELSE /\ Goto(w, "vm_StringTable")
            /\ UNCHANGED <<cur, chunk_visits, worker_times>>
  /\ UNCHANGED <<tableVars, procFrame, tasks, visits, trace>>

vm_roots_om(w) ==
  /\ pc[w] = "vm_om"
  /\ OmLoop(w, "vm_StringTable")
  /\ UNCHANGED <<tableVars, procFrame, tasks, visits, trace>>

\* if (weak_roots != NULL) StringTable::possibly_parallel_unlink_or_oops_do
vm_roots_StringTable_unguarded(w) ==
  /\ pc[w] = "vm_StringTable"
  /\ Call(w, "StringTable", "unlink_or_oops_do")
  /\ Goto(w, "vm_StringTable_chunks")
  /\ UNCHANGED <<tableVars, procFrame, tasks, cur, chunk_visits>>

vm_roots_StringTable(w) ==
  /\ pc[w] = "vm_StringTable"
  /\ IF weak_roots[w]
       THEN /\ Call(w, "StringTable", "unlink_or_oops_do")
            /\ Goto(w, "vm_StringTable_chunks")
       ELSE /\ Goto(w, "completed")
            /\ UNCHANGED <<visits, worker_times, trace>>
  /\ UNCHANGED <<tableVars, procFrame, tasks, cur, chunk_visits>>

\* inside possibly_parallel_unlink_or_oops_do: the caller claims chunks of
\* buckets until none is left, one chunk per step
vm_roots_StringTable_chunks_no_unlink(w) ==
  /\ pc[w] = "vm_StringTable_chunks"
  /\ IF st_idx < NEntries
       THEN /\ StringTable_unlink_or_oops_do_chunk(w, "always_true")
            /\ UNCHANGED pc
       ELSE Goto(w, "completed") /\ UNCHANGED internVars
  /\ UNCHANGED <<jniWeakVars, cldVars, threadVars, worker_times, procFrame,
                 tasks, cur, visits, chunk_visits, trace>>

vm_roots_StringTable_chunks(w) ==
  /\ pc[w] = "vm_StringTable_chunks"
  /\ IF st_idx < NEntries
       THEN StringTable_unlink_or_oops_do_chunk(w, "is_alive") /\ UNCHANGED pc
       ELSE Goto(w, "completed") /\ UNCHANGED internVars
  /\ UNCHANGED <<jniWeakVars, cldVars, threadVars, worker_times, procFrame,
                 tasks, cur, visits, chunk_visits, trace>>

\* _process_strong_tasks->all_tasks_completed(), then the call returns
all_tasks_completed(w) ==
  /\ pc[w] = "completed"
  /\ threads_completed' = threads_completed + 1
  /\ Log(w, <<Ev("done", "", "")>>)
  /\ Goto(w, "done")
  /\ UNCHANGED <<tableVars, worker_times, sessionVars, live, argVars, timing,
                 pllVars, evac_log, tasks,
                 cur, visits, chunk_visits>>

\* ------------------------------------------------- ShenandoahRootEvacuator
\* if (!_evacuation_tasks->is_task_claimed(t)) { <source>::oops_do(oops); }
EvacClaimedRoots(w, t, s, next) ==
  /\ ClaimedRoots(w, t, s, next)
  /\ IF ~is_task_claimed(t) THEN Evacuates ELSE UNCHANGED evac_log

process_evacuate_roots(w) ==
  /\ live /\ kind = "evac" /\ pc[w] = "idle"
  /\ Goto(w, "pll_load")
  /\ UNCHANGED <<tableVars, worker_times, stepFrame, pllVars, evac_log, tasks,
                 cur, visits,
                 chunk_visits, trace>>

\* pll = load_decode_heap_oop(pll_addr);
\* if (!oopDesc::is_null(pll) && heap->in_collection_set(pll)) { .. }
evacuate_pll_load_no_cset_test(w) ==
  /\ pc[w] = "pll_load"
  /\ IF pll_slot # "NULL" /\ ~pll_in_cset
       THEN Goto(w, "pll_resolve")
       ELSE Goto(w, "ev_cld")
  /\ UNCHANGED <<tableVars, worker_times, stepFrame, pllVars, evac_log, tasks,
                 cur, visits,
                 chunk_visits, trace>>

evacuate_pll_load(w) ==
  /\ pc[w] = "pll_load"
  /\ IF pll_slot # "NULL" /\ pll_in_cset
       THEN Goto(w, "pll_resolve")
       ELSE Goto(w, "ev_cld")
  /\ UNCHANGED <<tableVars, worker_times, stepFrame, pllVars, evac_log, tasks,
                 cur, visits,
                 chunk_visits, trace>>

\* oop fwd = resolve_forwarded_not_null(pll); if (pll == fwd) evacuate_object
evacuate_pll_resolve_inverted(w) ==
  /\ pc[w] = "pll_resolve"
  /\ IF fwd # 0
       THEN Goto(w, "pll_evacuate") /\ UNCHANGED fwd_seen
       ELSE Goto(w, "ev_cld") /\ fwd_seen' = [fwd_seen EXCEPT ![w] = fwd]
  /\ UNCHANGED <<tableVars, worker_times, stepFrame, fwd, copies, oom,
                 evac_log, tasks, cur, visits,
                 chunk_visits, trace>>

evacuate_pll_resolve_no_self_test(w) ==
  /\ pc[w] = "pll_resolve"
  /\ Goto(w, "pll_evacuate")
  /\ UNCHANGED <<tableVars, worker_times, stepFrame, pllVars, evac_log, tasks,
                 cur, visits, chunk_visits, trace>>

evacuate_pll_resolve(w) ==
  /\ pc[w] = "pll_resolve"
  /\ IF fwd = 0
       THEN Goto(w, "pll_evacuate") /\ UNCHANGED fwd_seen
       ELSE Goto(w, "ev_cld") /\ fwd_seen' = [fwd_seen EXCEPT ![w] = fwd]
  /\ UNCHANGED <<tableVars, worker_times, stepFrame, fwd, copies, oom,
                 evac_log, tasks, cur, visits,
                 chunk_visits, trace>>

\* heap->evacuate_object(pll, t), first half: allocate and copy; allocation
\* may fail, and then the object stays where it is
evacuate_object_alloc(w) ==
  /\ pc[w] = "pll_evacuate"
  /\ \E ok \in BOOLEAN :
       IF ok
         THEN /\ copies' = copies \cup {w}
              /\ Goto(w, "pll_cas")
              /\ UNCHANGED <<oom, fwd_seen>>
         ELSE /\ oom' = [oom EXCEPT ![w] = TRUE]
              /\ fwd_seen' = [fwd_seen EXCEPT ![w] = fwd]
              /\ Goto(w, "ev_cld")
              /\ UNCHANGED copies
  /\ UNCHANGED <<tableVars, worker_times, stepFrame, fwd, evac_log, tasks,
                 cur, visits, chunk_visits,
                 trace>>

\* heap->evacuate_object(pll, t), second half: install the forwarding pointer
\* with a compare-and-set; the loser rolls its copy back
evacuate_object_cas(w) ==
  /\ pc[w] = "pll_cas"
  /\ IF fwd = 0
       THEN /\ fwd' = w
            /\ fwd_seen' = [fwd_seen EXCEPT ![w] = w]
            /\ evac_log' = Noted("pll")
            /\ UNCHANGED copies
       ELSE /\ copies' = copies \ {w}
            /\ fwd_seen' = [fwd_seen EXCEPT ![w] = fwd]
            /\ UNCHANGED <<fwd, evac_log>>
  /\ Goto(w, "ev_cld")
  /\ UNCHANGED <<tableVars, worker_times, stepFrame, oom, tasks, cur, visits,
                 chunk_visits, trace>>

\* _cld_iterator.root_cld_do(&clds, &clds)
evacuate_roots_cld_abort_on_oom(w) ==
  /\ pc[w] = "ev_cld"
  /\ IF oom[w]
       THEN /\ Goto(w, "done")
            /\ UNCHANGED <<visits, worker_times, trace, cldVars, evac_log>>
       ELSE /\ Call(w, "CLDG", "strong+weak")
            /\ roots_cld_do(TRUE)
            /\ Evacuates
            /\ Goto(w, "ev_threads")
  /\ UNCHANGED <<internVars, jniWeakVars, threadVars, stepFrame, pllVars,
                 tasks, cur, chunk_visits>>

evacuate_roots_cld(w) ==
  /\ pc[w] = "ev_cld"
  /\ Call(w, "CLDG", "strong+weak")
  /\ roots_cld_do(TRUE)
  /\ Evacuates
  /\ Goto(w, "ev_threads")
  /\ UNCHANGED <<internVars, jniWeakVars, threadVars, stepFrame, pllVars,
                 tasks, cur, chunk_visits>>

\* Threads::possibly_parallel_oops_do(oops, NULL, NULL)
evacuate_roots_threads(w) ==
  /\ pc[w] = "ev_threads"
  /\ Call(w, "Threads", "")
  /\ Threads_possibly_parallel_oops_do
  /\ Evacuates
  /\ Goto(w, "ev_code")
  /\ UNCHANGED <<internVars, jniWeakVars, cldVars, stepFrame, pllVars, tasks,
                 cur, chunk_visits>>

\* if (blobs != NULL) _coderoots_cset_iterator.possibly_parallel_blobs_do(blobs)
evacuate_roots_code(w) ==
  /\ pc[w] = "ev_code"
  /\ IF blobs
       THEN Call(w, "CodeCache", "cset") /\ Evacuates
       ELSE UNCHANGED <<visits, worker_times, trace, evac_log>>
  /\ Goto(w, "ev_Universe")
  /\ UNCHANGED <<tableVars, stepFrame, pllVars, tasks, cur, chunk_visits>>

evacuate_roots_Universe(w) ==
  /\ pc[w] = "ev_Universe"
  /\ EvacClaimedRoots(w, "Universe_oops_do", "Universe", "ev_JNIHandles")
  /\ UNCHANGED <<tableVars, stepFrame, pllVars, cur, chunk_visits>>

evacuate_roots_JNIHandles(w) ==
  /\ pc[w] = "ev_JNIHandles"
  /\ EvacClaimedRoots(w, "JNIHandles_oops_do", "JNIHandles", "ev_FlatProfiler")
  /\ UNCHANGED <<tableVars, stepFrame, pllVars, cur, chunk_visits>>

evacuate_roots_FlatProfiler(w) ==
  /\ pc[w] = "ev_FlatProfiler"
  /\ EvacClaimedRoots(w, "FlatProfiler_oops_do", "FlatProfiler", "ev_Management")
  /\ UNCHANGED <<tableVars, stepFrame, pllVars, cur, chunk_visits>>

evacuate_roots_Management(w) ==
  /\ pc[w] = "ev_Management"
  /\ EvacClaimedRoots(w, "Management_oops_do", "Management", "ev_jvmti")
  /\ UNCHANGED <<tableVars, stepFrame, pllVars, cur, chunk_visits>>

evacuate_roots_jvmti(w) ==
  /\ pc[w] = "ev_jvmti"
  /\ EvacClaimedRoots(w, "jvmti_oops_do", "Jvmti", "ev_SystemDictionary")
  /\ UNCHANGED <<tableVars, stepFrame, pllVars, cur, chunk_visits>>

\* SystemDictionary::oops_do(oops)
evacuate_roots_SystemDictionary(w) ==
  /\ pc[w] = "ev_SystemDictionary"
  /\ EvacClaimedRoots(w, "SystemDictionary_oops_do", "SystemDictionary",
                      "ev_JNIWeak")
  /\ UNCHANGED <<tableVars, stepFrame, pllVars, cur, chunk_visits>>

\* JNIHandles::weak_oops_do(&always_true, oops)
evacuate_roots_JNIWeak_is_alive(w) ==
  /\ pc[w] = "ev_JNIWeak"
  /\ EvacClaimedRoots(w, "JNIHandles_weak_oops_do", "JNIWeak", "ev_StringDedup")
  /\ IF ~is_task_claimed("JNIHandles_weak_oops_do")
       THEN weak_oops_do("is_alive")
       ELSE UNCHANGED jniWeakVars
  /\ UNCHANGED <<internVars, cldVars, threadVars, stepFrame, pllVars, cur,
                 chunk_visits>>

evacuate_roots_JNIWeak(w) ==
  /\ pc[w] = "ev_JNIWeak"
  /\ EvacClaimedRoots(w, "JNIHandles_weak_oops_do", "JNIWeak", "ev_StringDedup")
  /\ IF ~is_task_claimed("JNIHandles_weak_oops_do")
       THEN weak_oops_do("always_true")
       ELSE UNCHANGED jniWeakVars
  /\ UNCHANGED <<internVars, cldVars, threadVars, stepFrame, pllVars, cur,
                 chunk_visits>>

\* if (ShenandoahStringDedup::is_enabled()) parallel_oops_do(oops)
evacuate_roots_StringDedup(w) ==
  /\ pc[w] = "ev_StringDedup"
  /\ IF dedup_enabled
       THEN Call(w, "StringDedup", "parallel_oops_do") /\ Evacuates
       ELSE UNCHANGED <<visits, worker_times, trace, evac_log>>
  /\ Goto(w, "ev_om")
  /\ UNCHANGED <<tableVars, stepFrame, pllVars, tasks, cur, chunk_visits>>

\* { while(_om_iterator.parallel_oops_do(oops)); }
evacuate_roots_om(w) ==
  /\ pc[w] = "ev_om"
  /\ OmLoop(w, "ev_StringTable")
  /\ IF om_has_next THEN Evacuates ELSE UNCHANGED evac_log
  /\ UNCHANGED <<tableVars, stepFrame, pllVars, tasks, visits, trace>>

\* StringTable::possibly_parallel_oops_do(oops); then the call returns
evacuate_roots_StringTable(w) ==
  /\ pc[w] = "ev_StringTable"
  /\ Call(w, "StringTable", "oops_do")
  /\ StringTable_possibly_parallel_oops_do
  /\ Evacuates
  /\ Goto(w, "done")
  /\ UNCHANGED <<jniWeakVars, cldVars, threadVars, stepFrame, pllVars, tasks,
                 cur, chunk_visits>>

\* ------------------------------------------------- process_all_roots_slow
\* The sources in the order of the calls of process_all_roots_slow.
SlowOrderThreadsEarly ==
  <<"CodeCache", "CLDG", "Threads", "Universe", "FlatProfiler", "Management",
    "Jvmti", "JNIHandles", "JNIWeak", "ObjectSynchronizer", "SystemDictionary",
    "StringTable", "StringDedup">>

SlowOrder ==
  <<"CodeCache", "CLDG", "Universe", "FlatProfiler", "Management", "Jvmti",
    "JNIHandles", "JNIWeak", "ObjectSynchronizer", "SystemDictionary",
    "StringTable", "StringDedup", "Threads">>

\* if (ShenandoahStringDedup::is_enabled()) oops_do_slow(oops)
SlowCalled(s) == s # "StringDedup" \/ dedup_enabled

SlowVisits ==
  LET called == SelectSeq(SlowOrder, SlowCalled)
  IN  [i \in 1..Len(called) |->
         Ev("visit", called[i],
            IF called[i] = "JNIWeak" THEN "always_true" ELSE "")]

\* Serial: one thread runs the whole function, no worker is inside a call.
SlowCallable(w) ==
  /\ live /\ pc[w] = "idle"
  /\ \/ kind = "slow" /\ \A v \in Workers : pc[v] = "idle"
     \/ kind = "strong_slow" /\ \A v \in Workers : pc[v] \in {"idle", "done"}

process_all_roots_slow_claiming(w) ==
  /\ SlowCallable(w)
  /\ Log(w, SlowVisits)
  /\ visits' = [s \in Sources |->
                  visits[s] + Cardinality({i \in DOMAIN SlowVisits :
                                             SlowVisits[i].src = s})]
  /\ cld_do
  /\ weak_oops_do("always_true")
  /\ StringTable_oops_do
  /\ Threads_possibly_parallel_oops_do
  /\ tasks' = [t \in Tasks |-> 1]
  /\ Goto(w, "done")
  /\ UNCHANGED <<worker_times, procFrame, cur, chunk_visits>>

process_all_roots_slow(w) ==
  /\ SlowCallable(w)
  /\ Log(w, SlowVisits)
  /\ visits' = [s \in Sources |->
                  visits[s] + Cardinality({i \in DOMAIN SlowVisits :
                                             SlowVisits[i].src = s})]
  /\ cld_do
  /\ weak_oops_do("always_true")
  /\ StringTable_oops_do
  /\ Threads_possibly_parallel_oops_do
  /\ Goto(w, "done")
  /\ UNCHANGED <<worker_times, procFrame, tasks, cur, chunk_visits>>

\* ------------------------------------------------------------ destructors
Quiescent == \A w \in Workers : pc[w] \in {"idle", "done"}

\* ~ShenandoahRootProcessor: delete _process_strong_tasks
DestroyRootProcessor ==
  /\ live /\ kind # "evac" /\ Quiescent
  /\ live' = FALSE
  /\ UNCHANGED <<tableVars, worker_times, sessionVars, pc, argVars, tasks,
                 threads_completed, cur,
                 pllVars, evac_log, timing, visits, chunk_visits, trace>>

\* ~ShenandoahRootEvacuator: delete _evacuation_tasks; record_workers_end(_phase)
DestroyRootEvacuatorNoRecord ==
  /\ live /\ kind = "evac" /\ Quiescent
  /\ live' = FALSE
  /\ UNCHANGED <<tableVars, worker_times, sessionVars, pc, argVars, tasks,
                 threads_completed, cur,
                 pllVars, evac_log, timing, visits, chunk_visits, trace>>

DestroyRootEvacuator ==
  /\ live /\ kind = "evac" /\ Quiescent
  /\ live' = FALSE
  /\ timing' = Append(timing, [rec |-> "end", phase |-> phase])
  /\ UNCHANGED <<tableVars, worker_times, sessionVars, pc, argVars, tasks,
                 threads_completed, cur,
                 pllVars, evac_log, visits, chunk_visits, trace>>

\* ------------------------------------------------------------------ Next
Next ==
  \/ \E w \in Workers : process_strong_roots(w)
  \/ \E w \in Workers : process_all_roots(w)
  \/ \E w \in Workers : java_roots_cld(w)
  \/ \E w \in Workers : java_roots_threads(w)
  \/ \E w \in Workers : vm_roots_Universe(w)
  \/ \E w \in Workers : vm_roots_JNIHandles(w)
  \/ \E w \in Workers : vm_roots_FlatProfiler(w)
  \/ \E w \in Workers : vm_roots_Management(w)
  \/ \E w \in Workers : vm_roots_jvmti(w)
  \/ \E w \in Workers : vm_roots_SystemDictionary(w)
  \/ \E w \in Workers : vm_roots_JNIWeak(w)
  \/ \E w \in Workers : vm_roots_StringDedup(w)
  \/ \E w \in Workers : vm_roots_om(w)
  \/ \E w \in Workers : vm_roots_StringTable(w)
  \/ \E w \in Workers : vm_roots_StringTable_chunks(w)
  \/ \E w \in Workers : all_tasks_completed(w)
  \/ \E w \in Workers : process_evacuate_roots(w)
  \/ \E w \in Workers : evacuate_pll_load(w)
  \/ \E w \in Workers : evacuate_pll_resolve(w)
  \/ \E w \in Workers : evacuate_object_alloc(w)
  \/ \E w \in Workers : evacuate_object_cas(w)
  \/ \E w \in Workers : evacuate_roots_cld(w)
  \/ \E w \in Workers : evacuate_roots_threads(w)
  \/ \E w \in Workers : evacuate_roots_code(w)
  \/ \E w \in Workers : evacuate_roots_Universe(w)
  \/ \E w \in Workers : evacuate_roots_JNIHandles(w)
  \/ \E w \in Workers : evacuate_roots_FlatProfiler(w)
  \/ \E w \in Workers : evacuate_roots_Management(w)
  \/ \E w \in Workers : evacuate_roots_jvmti(w)
  \/ \E w \in Workers : evacuate_roots_SystemDictionary(w)
  \/ \E w \in Workers : evacuate_roots_JNIWeak(w)
  \/ \E w \in Workers : evacuate_roots_StringDedup(w)
  \/ \E w \in Workers : evacuate_roots_om(w)
  \/ \E w \in Workers : evacuate_roots_StringTable(w)
  \/ \E w \in Workers : process_all_roots_slow(w)
  \/ DestroyRootProcessor
  \/ DestroyRootEvacuator

Spec == Init /\ [][Next]_vars

\* The steps of worker w inside a call it has made.
WorkerStep(w) ==
  \/ java_roots_cld(w) \/ java_roots_threads(w)
  \/ vm_roots_Universe(w) \/ vm_roots_JNIHandles(w)
  \/ vm_roots_FlatProfiler(w) \/ vm_roots_Management(w)
  \/ vm_roots_jvmti(w) \/ vm_roots_SystemDictionary(w)
  \/ vm_roots_JNIWeak(w) \/ vm_roots_StringDedup(w) \/ vm_roots_om(w)
  \/ vm_roots_StringTable(w) \/ vm_roots_StringTable_chunks(w)
  \/ all_tasks_completed(w)
  \/ evacuate_pll_load(w) \/ evacuate_pll_resolve(w)
  \/ evacuate_object_alloc(w) \/ evacuate_object_cas(w)
  \/ evacuate_roots_cld(w) \/ evacuate_roots_threads(w)
  \/ evacuate_roots_code(w) \/ evacuate_roots_Universe(w)
  \/ evacuate_roots_JNIHandles(w) \/ evacuate_roots_FlatProfiler(w)
  \/ evacuate_roots_Management(w) \/ evacuate_roots_jvmti(w)
  \/ evacuate_roots_SystemDictionary(w) \/ evacuate_roots_JNIWeak(w)
  \/ evacuate_roots_StringDedup(w) \/ evacuate_roots_om(w)
  \/ evacuate_roots_StringTable(w)

\* Every worker is a thread of the collector's worker gang and runs its call
\* without being suspended for ever: weak fairness of its own steps.
FairSpec == Spec /\ \A w \in Workers : WF_vars(WorkerStep(w))

\* ================================================================ claims
Parallel == kind \in {"strong", "all", "evac"}

AllReturned == \A w \in Workers : pc[w] = "done"

SomeReturned == \E w \in Workers : pc[w] = "done"

Has(w, e, s) == \E i \in DOMAIN trace[w] : trace[w][i].ev = e /\ trace[w][i].src = s

\* C1: in a strong scan or an evacuation scan, whatever the interleaving of
\* the workers, the traversal of every singleton strong source is invoked at
\* most once, and exactly once as soon as one worker has returned from its call.
C1_SingletonsExactlyOnce ==
  Parallel =>
    \A s \in SingletonStrong :
      /\ visits[s] <= 1
      /\ SomeReturned => visits[s] = 1

C1_Witness ==
  /\ kind = "strong" /\ AllReturned
  /\ \A s \in SingletonStrong : visits[s] = 1
  /\ \A w \in Workers : \A t \in StrongTasks : Has(w, "claim", t)

\* C2: when the workers each loop on parallel_oops_do until it answers false,
\* no chunk of the monitor table is walked twice, and once all workers have
\* returned every chunk has been walked exactly once.
C2_ChunksExactlyOnce ==
  Parallel =>
    /\ \A c \in Chunks : chunk_visits[c] <= 1
    /\ AllReturned => \A c \in Chunks : chunk_visits[c] = 1

C2_Witness ==
  /\ kind = "evac" /\ AllReturned
  /\ \A c \in Chunks : chunk_visits[c] = 1

\* The pre-pass of worker w is over.
PrePassDone(w) ==
  pc[w] \notin {"idle", "pll_load", "pll_resolve", "pll_evacuate", "pll_cas"}

PllCondemned ==
  /\ kind = "evac" /\ pll_slot = "PLL" /\ pll_in_cset
  /\ \A w \in Workers : PrePassDone(w)

\* C3 as stated: once all workers have run the pre-pass on a lock object that
\* was in the collection set, the object is forwarded, exactly one copy of it
\* exists and all workers have seen that forwardee.
C3_ForwardedAfterPrePass ==
  PllCondemned =>
    /\ fwd # 0
    /\ copies = {fwd}
    /\ \A w \in Workers : fwd_seen[w] = fwd

\* C3 amended: once all workers have run the pre-pass on a lock object that was
\* in the collection set, at most one forwarding has taken effect (the only
\* copy that exists is the forwardee, and a worker that saw a forwardee saw
\* that one); the object is forwarded unless the allocation failed in every
\* worker, and when no allocation failed all workers have seen the forwardee.
C3_AtMostOneForwarding ==
  PllCondemned =>
    /\ copies = (IF fwd = 0 THEN {} ELSE {fwd})
    /\ \A w \in Workers : fwd_seen[w] \in {0, fwd}
    /\ fwd = 0 => \A w \in Workers : oom[w]
    /\ (\A w \in Workers : ~oom[w]) =>
         fwd # 0 /\ \A w \in Workers : fwd_seen[w] = fwd

C3_Witness ==
  /\ PllCondemned
  /\ fwd # 0 /\ copies = {fwd}
  /\ \A w \in Workers : fwd_seen[w] = fwd /\ ~oom[w]

\* C4: in the log of process_all_roots_slow every thread-root visit comes after
\* the visit of every other source, and every other source is in the log (the
\* dedup table when it is enabled).
C4_SlowThreadsLast ==
  kind = "slow" =>
    \A w \in Workers :
      /\ \A i, j \in DOMAIN trace[w] :
           trace[w][i].src = "Threads" /\ trace[w][j].src # "Threads" => j < i
      /\ pc[w] = "done" =>
           \A s \in Sources : (s # "StringDedup" \/ dedup_enabled) =>
                                Has(w, "visit", s)

C4_Witness ==
  /\ kind = "slow" /\ dedup_enabled
  /\ \E w \in Workers : pc[w] = "done" /\ Len(trace[w]) = 13

\* C5: an evacuation session hands the phase timings one start record, first,
\* and one end record for the same phase when it is destroyed, and no other
\* record, whatever the workers did in between.
C5_TimingInterval ==
  kind = "evac" =>
    /\ live => timing = <<[rec |-> "start", phase |-> phase]>>
    /\ ~live => timing = <<[rec |-> "start", phase |-> phase],
                           [rec |-> "end", phase |-> phase]>>

C5_Witness ==
  /\ kind = "evac" /\ ~live /\ AllReturned
  /\ Len(timing) = 2
  /\ timing[1].rec = "start" /\ timing[2].rec = "end"

\* C6: when all workers have returned from the entry point of a parallel scan,
\* every worker has signalled done to the claim set: the done count is N.
C6_AllReturnedComplete ==
  (Parallel /\ AllReturned) => threads_completed = NWorkers

\* The place of an event in the order of process_strong_roots.
Rank(e) ==
  CASE e.ev = "visit" /\ e.src = "CLDG" -> 1
    [] e.ev = "visit" /\ e.src = "Threads" -> 2
    [] e.ev = "done" -> 4
    [] OTHER -> 3

\* C7: in a worker's call of process_strong_roots the class-loader graph is
\* traversed first and with the strong closure only, then the thread stacks,
\* then the claims of the singleton strong sources are attempted, and the done
\* signal comes last, once, after all of them.
C7_StrongRootsOrder ==
  kind = "strong" =>
    \A w \in Workers :
      /\ \A i, j \in DOMAIN trace[w] :
           i < j => Rank(trace[w][i]) <= Rank(trace[w][j])
      /\ \A i \in DOMAIN trace[w] :
           trace[w][i].src = "CLDG" => trace[w][i].arg = "strong"
      /\ Has(w, "done", "") =>
           /\ Has(w, "visit", "CLDG") /\ Has(w, "visit", "Threads")
           /\ \A t \in StrongTasks : Has(w, "claim", t)
           /\ Cardinality({i \in DOMAIN trace[w] : trace[w][i].ev = "done"}) = 1

C7_Witness ==
  /\ kind = "strong"
  /\ \A w \in Workers : pc[w] = "done" /\ Has(w, "done", "")

\* C8: in an evacuation scan a worker visits no root source before its
\* pre-pass is over, and when the lock object is in the collection set and no
\* allocation has failed, the first evacuation of the session is the lock's.
C8_PllEvacuatedFirst ==
  kind = "evac" =>
    /\ \A w \in Workers : trace[w] # <<>> => PrePassDone(w)
    /\ (pll_slot = "PLL" /\ pll_in_cset /\ \A w \in Workers : ~oom[w]) =>
         (evac_log # <<>> => evac_log[1] = "pll")

C8_Witness ==
  /\ kind = "evac" /\ pll_slot = "PLL" /\ pll_in_cset /\ AllReturned
  /\ \A w \in Workers : ~oom[w]
  /\ evac_log = <<"pll", "root">>

\* C9: a worker that runs process_vm_roots with a null weak visitor invokes no
\* weak source, and in a strong scan no weak source is traversed and the slot of the weak
\* native-handle table is never claimed.
C9_NoWeakSourceWithoutVisitor ==
  /\ kind \in {"strong", "all"} =>
       \A w \in Workers :
         ~weak_roots[w] => \A s \in WeakSources : ~Has(w, "visit", s)
  /\ kind = "strong" =>
       /\ \A s \in WeakSources : visits[s] = 0
       /\ tasks["JNIHandles_weak_oops_do"] = 0

C9_Witness ==
  /\ kind = "strong" /\ dedup_enabled /\ AllReturned
  /\ \A s \in WeakSources : visits[s] = 0

\* C10 as stated: a call of process_vm_roots with a null weak visitor consumes
\* no chunk of the monitor table.
C10_NoChunkWithoutVisitor ==
  kind = "strong" => cur = 0 /\ \A c \in Chunks : chunk_visits[c] = 0

\* C10 amended: process_vm_roots scans the monitor table whether the weak
\* visitor is null or not: a worker that is past the loop has seen the
\* iterator exhausted, and in a strong scan only the class-loader graph, the
\* threads, the singleton strong sources and the monitor chunks are visited.
C10_MonitorTableUnconditional ==
  /\ \A w \in Workers :
       pc[w] \in {"vm_StringTable", "completed"}
          \/ (pc[w] = "done" /\ kind \in {"strong", "all"})
       => cur = NChunks /\ \A c \in Chunks : chunk_visits[c] >= 1
  /\ kind = "strong" =>
       \A s \in Sources :
         visits[s] > 0 => s \in SingletonStrong \cup {"CLDG", "Threads"}

C10_Witness ==
  /\ kind = "strong" /\ AllReturned
  /\ \A w \in Workers : ~weak_roots[w]
  /\ cur = NChunks /\ \A c \in Chunks : chunk_visits[c] = 1

\* ------------------------------------------------------------------- C11
\* The workers of a processor session that are past the deduplication block
\* of process_vm_roots.
PastDedup(w) == pc[w] \in {"vm_om", "vm_StringTable", "completed", "done"}

\* C11 (as stated): in process_vm_roots the deduplication table is a guarded
\* singleton, so in one session at most one worker invokes its traversal.
C11_DedupInvokedOnce ==
  kind \in {"strong", "all"} => visits["StringDedup"] <= 1

\* C11 (amended): in process_vm_roots the deduplication table is not guarded
\* by a task slot: every worker whose weak visitor is non-null invokes
\* ShenandoahStringDedup::parallel_oops_do when the subsystem is enabled, no
\* task slot is claimed for it, and no worker invokes it when the subsystem
\* is disabled or its weak visitor is null.
C11_DedupEveryWorker ==
  kind \in {"strong", "all"} =>
    /\ \A w \in Workers :
         /\ PastDedup(w) =>
              (Has(w, "visit", "StringDedup") <=> (dedup_enabled /\ weak_roots[w]))
         /\ \A i \in DOMAIN trace[w] :
              trace[w][i].ev = "claim" => trace[w][i].src \in Tasks
    /\ visits["StringDedup"] =
         Cardinality({w \in Workers : Has(w, "visit", "StringDedup")})
    /\ ~dedup_enabled => visits["StringDedup"] = 0

C11_Witness ==
  /\ kind = "all" /\ dedup_enabled
  /\ \A w \in Workers : PastDedup(w) /\ weak_roots[w]
  /\ visits["StringDedup"] = NWorkers

\* ------------------------------------------------------------------- C12
RECURSIVE SumOver(_, _)
SumOver(f, S) ==
  IF S = {} THEN 0
            ELSE LET x == CHOOSE y \in S : TRUE
                 IN  f[x] + SumOver(f, S \ {x})

\* The call of the intern-table traversal by worker w has returned.
InternCallReturned(w) == weak_roots[w] /\ pc[w] \in {"completed", "done"}

\* C12: in a scan with a weak visitor and a fixed liveness predicate, under
\* any interleaving of the workers no intern-table entry is processed twice,
\* the 'processed' counts of the calls add up to the number of entries
\* processed and the 'removed' counts to the number of entries unlinked, only
\* dead entries are unlinked, and once one call has returned every entry has
\* been processed exactly once: the 'processed' counts add up to the number of
\* entries and the 'removed' counts to the number of dead entries.  Every
\* call leaves its pair of counts with its caller, process_vm_roots.
C12_InternCountsAddUp ==
  kind = "all" =>
    /\ \A e \in Entries : st_processed[e] = (IF e <= st_idx THEN 1 ELSE 0)
    /\ SumOver(processed, Workers) = st_idx
    /\ SumOver(removed, Workers) = Cardinality(Entries \ st_linked)
    /\ Entries \ st_linked = {e \in dead : e <= st_idx}
    /\ \A w \in Workers : removed[w] <= processed[w]
    /\ (\E w \in Workers : InternCallReturned(w)) =>
         /\ SumOver(processed, Workers) = NEntries
         /\ SumOver(removed, Workers) = Cardinality(dead)

C12_Witness ==
  /\ kind = "all" /\ AllReturned
  /\ \A w \in Workers : processed[w] >= 1
  /\ \E w \in Workers : removed[w] >= 1
  /\ \E e \in Entries : e \notin dead

\* ------------------------------------------------------------------- C13
\* Worker w has returned from root_cld_do / from the thread traversal.
PastCld(w) ==
  pc[w] \notin {"idle", "java_cld", "pll_load", "pll_resolve", "pll_evacuate",
                "pll_cas", "ev_cld"}

PastThreads(w) == PastCld(w) /\ pc[w] \notin {"java_threads", "ev_threads"}

\* The call of worker w supplies a visitor for node c: the strong visitor for
\* a strongly held node, the weak visitor (NULL in process_strong_roots) for
\* any other node.
HasCldVisitor(w, c) == keep_alive(c) \/ weak_clds[w] \/ kind = "evac"

C14_ThreadsOnce ==
  Parallel =>
    /\ \A t \in JavaThreads :
         /\ thread_visits[t] <= 1
         /\ t \in thread_claimed <=> thread_visits[t] = 1
    /\ (\E w \in Workers : PastThreads(w)) =>
         \A t \in JavaThreads : thread_visits[t] = 1

C14_Witness ==
  /\ kind = "evac" /\ AllReturned
  /\ visits["Threads"] = NWorkers
  /\ \A t \in JavaThreads : thread_visits[t] = 1

\* ------------------------------------------------------------------- C15
\* C15: in an evacuation session every weak source is treated as alive,
\* whatever a liveness predicate would report: after any sequence of
\* process_evacuate_roots calls no weak JNI handle has been cleared and no
\* intern-table entry unlinked, no weak entry has gone to the visitor twice,
\* and once one call has returned every weak JNI handle and every
\* intern-table entry has gone to the visitor exactly once.
C15_EvacWeakAlwaysAlive ==
  kind = "evac" =>
    /\ jni_cleared = {}
    /\ st_linked = Entries
    /\ \A w \in Workers : removed[w] = 0
    /\ \A e \in Entries : jni_visits[e] <= 1 /\ st_processed[e] <= 1
    /\ SomeReturned =>
         \A e \in Entries : jni_visits[e] = 1 /\ st_processed[e] = 1

C15_Witness ==
  /\ kind = "evac" /\ SomeReturned
  /\ dead = Entries
  /\ visits["JNIWeak"] = 1 /\ visits["StringTable"] >= 1
  /\ \A e \in Entries : jni_visits[e] = 1 /\ st_processed[e] = 1

\* ------------------------------------------------------------------- C16
\* The calls a worker makes in process_evacuate_roots after the pre-pass.
EvacCalls ==
  <<Ev("visit", "CLDG", "strong+weak"), Ev("visit", "Threads", "")>>
    \o (IF blobs THEN <<Ev("visit", "CodeCache", "cset")>> ELSE <<>>)
    \o <<Ev("claim", "Universe_oops_do", ""),
         Ev("claim", "JNIHandles_oops_do", ""),
         Ev("claim", "FlatProfiler_oops_do", ""),
         Ev("claim", "Management_oops_do", ""),
         Ev("claim", "jvmti_oops_do", ""),
         Ev("claim", "SystemDictionary_oops_do", ""),
         Ev("claim", "JNIHandles_weak_oops_do", "")>>
    \o (IF dedup_enabled
          THEN <<Ev("visit", "StringDedup", "parallel_oops_do")>> ELSE <<>>)
    \o <<Ev("visit", "StringTable", "oops_do")>>

\* C16: a worker whose evacuation of the pending-list-lock object failed to
\* allocate has left the pre-pass for the root sources, it has neither a copy
\* of the object nor forwarded it (no retry), and when it returns it has
\* made the same calls, in the same order, as a worker whose pre-pass
\* succeeded, and the monitor table is exhausted.
C16_EvacuationFailureTolerated ==
  kind = "evac" =>
    \A w \in Workers :
      /\ oom[w] => (PrePassDone(w) /\ w \notin copies /\ fwd # w)
      /\ pc[w] = "done" => (trace[w] = EvacCalls /\ cur = NChunks)

C16_Witness ==
  /\ kind = "evac" /\ AllReturned
  /\ \E w \in Workers : oom[w] /\ trace[w] = EvacCalls
  /\ \E w \in Workers : ~oom[w] /\ fwd = w

\* ------------------------------------------------------------------- C17
InCall(w) == pc[w] \notin {"idle", "done"}

\* C17: under weak fairness of each worker's own steps, a worker inside a
\* call of process_strong_roots / process_all_roots / process_evacuate_roots
\* always has a step it can take whatever the other workers do, and every
\* such call returns; a worker in the monitor-table loop leaves the loop once
\* the chunk cursor is exhausted.
C17_CallsTerminate ==
  /\ [](\A w \in Workers : InCall(w) => ENABLED <<WorkerStep(w)>>_vars)
  /\ \A w \in Workers : InCall(w) ~> (pc[w] = "done")
  /\ \A w \in Workers :
       (pc[w] \in {"vm_om", "ev_om"} /\ cur = NChunks)
         ~> (pc[w] \notin {"vm_om", "ev_om"})

\* One worker has returned and another one calls the exhausted iterator.
C17_Witness ==
  /\ Parallel /\ cur = NChunks
  /\ \E w \in Workers : pc[w] = "done"
  /\ \E w \in Workers : pc[w] \in {"vm_om", "ev_om"}

\* ------------------------------------------------------------------- C18
\* Worker w takes a step of the test part of its pre-pass.
PrePassTest(w) == pc[w] \in {"pll_load", "pll_resolve"} /\ pc'[w] # pc[w]

\* Worker w takes a step inside heap->evacuate_object.
EvacuateObjectStep(w) ==
  pc[w] \in {"pll_evacuate", "pll_cas"} /\ pc'[w] # pc[w]

\* C18: a worker enters evacuate_object from its pre-pass only in a step in
\* which the pending-list-lock slot is non-null, the object is in the
\* collection set and it is unforwarded, and from the resolve step it then
\* always does; a worker that finds the slot null, the object outside the
\* collection set or already forwarded goes straight on to the root sources;
\* no step of the test changes the forwarding, the copies or the evacuation
\* log, which change only in a step of evacuate_object on a lock object in
\* the collection set.
C18_PrePassFrame ==
  [][\A w \in Workers :
       /\ PrePassTest(w) =>
            /\ UNCHANGED <<fwd, copies, oom, evac_log>>
            /\ pc'[w] \in {"pll_resolve", "pll_evacuate"} =>
                 (pll_slot = "PLL" /\ pll_in_cset)
            /\ pc'[w] = "pll_evacuate" <=> (pc[w] = "pll_resolve" /\ fwd = 0)
            /\ pc'[w] = "ev_cld" <=>
                 (pll_slot = "NULL" \/ ~pll_in_cset
                    \/ (pc[w] = "pll_resolve" /\ fwd # 0))
       /\ (fwd' # fwd \/ copies' # copies) =>
            /\ pll_slot = "PLL" /\ pll_in_cset
            /\ \E v \in Workers : EvacuateObjectStep(v)
     ]_vars

\* The lock object is outside the collection set: every worker has been
\* through the pre-pass and nothing was copied or forwarded.
C18_Witness ==
  /\ kind = "evac" /\ pll_slot = "PLL" /\ ~pll_in_cset
  /\ \A w \in Workers : PrePassDone(w) /\ fwd_seen[w] = 0
  /\ fwd = 0 /\ copies = {}

\* ------------------------------------------------------------------- C19
\* The task slot that guards a singleton source.
SlotOf ==
  [s \in SingletonStrong \cup {"JNIWeak"} |->
     CASE s = "Universe" -> "Universe_oops_do"
       [] s = "JNIHandles" -> "JNIHandles_oops_do"
       [] s = "FlatProfiler" -> "FlatProfiler_oops_do"
       [] s = "Management" -> "Management_oops_do"
       [] s = "Jvmti" -> "jvmti_oops_do"
       [] s = "SystemDictionary" -> "SystemDictionary_oops_do"
       [] s = "JNIWeak" -> "JNIHandles_weak_oops_do"]

Guarded == DOMAIN SlotOf

Unguarded == {"CLDG", "Threads", "ObjectSynchronizer"}

\* The positions of a worker at the block of source s.
BlockOf ==
  [s \in Guarded \cup Unguarded |->
     CASE s = "CLDG" -> {"java_cld", "ev_cld"}
       [] s = "Threads" -> {"java_threads", "ev_threads"}
       [] s = "ObjectSynchronizer" -> {"vm_om", "ev_om"}
       [] s = "Jvmti" -> {"vm_jvmti", "ev_jvmti"}
       [] OTHER -> {"vm_" \o s, "ev_" \o s}]

\* Worker w leaves the block of source s in this step.
LeavesBlock(w, s) == pc'[w] # pc[w] /\ pc[w] \in BlockOf[s]

PastOm(w) ==
  pc[w] \in {"vm_StringTable", "vm_StringTable_chunks", "completed",
             "ev_StringTable", "done"}

\* The records of a parallel scan, counted from the claim bits and from the
\* positions of the workers.
TimingRecords ==
  Parallel =>
    /\ \A s \in Guarded : worker_times[s] = tasks[SlotOf[s]]
    /\ worker_times["CLDG"] = Cardinality({w \in Workers : PastCld(w)})
    /\ worker_times["Threads"] = Cardinality({w \in Workers : PastThreads(w)})
    /\ worker_times["ObjectSynchronizer"] =
         Cardinality({w \in Workers : PastOm(w)})

\* C19: in a parallel scan a guarded singleton source has one timing record if
\* its slot is claimed and none before, and the record is written in the step
\* of the worker that wins the claim: the step of a worker that loses the
\* claim writes none; for the class-loader graph, the thread roots and the
\* monitor table every worker writes exactly one record in the step in which
\* it leaves the block, so the records of such a source count the workers
\* that have been through its block; no other step writes a record for these
\* sources.  (No record exists when the session is constructed; the count
\* is stated for the state after every step.)
C19_TimingFollowsClaim ==
  [][/\ TimingRecords'
     /\ \A w \in Workers :
          /\ \A s \in Guarded :
               LeavesBlock(w, s) =>
                 worker_times'[s] = worker_times[s] +
                   (IF tasks[SlotOf[s]] = 0 /\ tasks'[SlotOf[s]] = 1
                      THEN 1 ELSE 0)
          /\ \A s \in Unguarded :
               LeavesBlock(w, s) => worker_times'[s] = worker_times[s] + 1
     /\ \A s \in Guarded \cup Unguarded :
          worker_times'[s] # worker_times[s] =>
            \E w \in Workers : LeavesBlock(w, s)
    ]_vars

C19_Witness ==
  /\ kind = "all" /\ AllReturned
  /\ \A s \in Guarded : worker_times[s] = 1
  /\ \A s \in Unguarded : worker_times[s] = NWorkers

\* ------------------------------------------------------------------- C20
\* Worker w runs process_all_roots_slow in this step.
SlowStep(w) ==
  kind \in {"slow", "strong_slow"} /\ pc[w] = "idle" /\ pc'[w] = "done"

\* C20: a call of process_all_roots_slow leaves the claim bits and the done
\* count of the session's SubTasksDone as they are, whatever they are, and it
\* invokes the traversal of every singleton source exactly once, whether the
\* slot of the source is claimed or not.
C20_SlowIgnoresClaims ==
  [][\A w \in Workers :
       SlowStep(w) =>
         /\ UNCHANGED <<tasks, threads_completed>>
         /\ \A s \in Guarded : visits'[s] = visits[s] + 1
         /\ trace'[w] = trace[w] \o SlowVisits
    ]_vars

\* A worker has run the strong scan, which claimed the slots of the strong
\* singletons and signalled done, and process_all_roots_slow has run too.
C20_Witness ==
  /\ kind = "strong_slow" /\ AllReturned
  /\ threads_completed = 1
  /\ \A s \in SingletonStrong : tasks[SlotOf[s]] = 1 /\ visits[s] = 2
  /\ tasks["JNIHandles_weak_oops_do"] = 0 /\ visits["JNIWeak"] = 1

====
